---- MODULE Spec2Model ----
(***************************************************************************)
(* Model of ar1() in src/Thrust/ar1.cpp: Tauchen's discretisation of an    *)
(* AR1 process into the grid Z and the transition matrix P.                *)
(*                                                                         *)
(* REAL is a binary floating-point type.  The model keeps its arithmetic   *)
(* and scales its width down: a REAL is an integer v standing for          *)
(* v * 2^-FRAC, with at most PREC significant bits; every operation        *)
(* computes the exact result and rounds it to the nearest such value,      *)
(* ties to even, as IEEE-754 does.  The parameter sets below keep every    *)
(* value far from overflow and from the subnormal range, so infinities     *)
(* and NaNs are outside the model.                                         *)
(***************************************************************************)
EXTENDS Integers, Sequences, FiniteSets, TLC

\* ------------------------------------------------------------------ bounds
\* significand width of the modelled REAL (53 for double, 24 for float)
PREC == 8
\* the modelled REAL resolves multiples of 2^-FRAC
FRAC == 16
\* nz ranges over 3..MaxNz
MaxNz == 5
\* number of consecutive calls of ar1 on the same containers
MaxCalls == 2
\* nz ranges over 3..ParMaxNz in the row-parallel runs
ParMaxNz == 3

\* ------------------------------------------------------- REAL arithmetic
\* The operations are functions on Int: an operand is a value, computed
\* once, as in the program.
ONE == 2^FRAC
HALF == ONE \div 2
Abs(x) == IF x < 0 THEN -x ELSE x
Sgn(x) == IF x < 0 THEN -1 ELSE 1
Max(a, b) == IF a >= b THEN a ELSE b

\* floor(log2(a)) for a >= 1
Ilog2[a \in Int] == IF a < 2 THEN 0 ELSE 1 + Ilog2[a \div 2]

\* number of trailing zero bits of a >= 1
Tz[a \in Int] == IF a % 2 = 1 THEN 0 ELSE 1 + Tz[a \div 2]

\* the significand of a with its trailing zeros removed
Mant[a \in Int] == a \div 2^Tz[a]

\* The REAL nearest to M * 2^-s (in units of 2^-FRAC), ties to even: the
\* rounding step every floating-point operation ends with.
RoundShift[M, s \in Int] ==
    IF M = 0 THEN 0
    ELSE LET a == Abs(M)
             L == Ilog2[a]
             drop == Max(L + 1 - PREC, s)
         IN  IF drop <= 0 THEN Sgn(M) * a * 2^(-s)
             ELSE IF drop > L + 1 THEN 0
             ELSE LET q == a \div 2^drop
                      r == a % 2^drop
                      half == 2^(drop - 1)
                      up == r > half \/ (r = half /\ q % 2 = 1)
                  IN  Sgn(M) * (IF up THEN q + 1 ELSE q) * 2^(drop - s)

\* conversion int -> REAL (zstep*ix, nz-1, the literals 1 and 2)
FromInt[n \in Int] == RoundShift[n, -FRAC]

FAdd[x, y \in Int] == RoundShift[x + y, 0]
FSub[x, y \in Int] == RoundShift[x - y, 0]

FMul[x, y \in Int] ==
    IF x = 0 \/ y = 0 THEN 0
    ELSE LET a == Abs(x)
             b == Abs(y)
         IN  RoundShift[Sgn(x) * Sgn(y) * Mant[a] * Mant[b], FRAC - Tz[a] - Tz[b]]

FDiv[x, y \in Int] ==
    IF x = 0 THEN 0
    ELSE LET a == Abs(x)
             b == Abs(y)
             ma == Mant[a]
             mb == Mant[b]
             u == 2 * PREC + 1 - Ilog2[ma]
             N == ma * 2^u
             Q == N \div mb
             M == 2 * Q + (IF N % mb = 0 THEN 0 ELSE 1)
         IN  RoundShift[Sgn(x) * Sgn(y) * M, Tz[b] - Tz[a] + u + 1 - FRAC]

\* the largest r with r*r <= n, built bit by bit from bit 2^b down
ISqrtRec[n, b, r \in Int] ==
    IF b < 0 THEN r
    ELSE LET c == r + 2^b
         IN  ISqrtRec[n, b - 1, IF c * c <= n THEN c ELSE r]

\* sqrt(x), correctly rounded (x >= 0)
FSqrt[x \in Int] ==
    IF x = 0 THEN 0
    ELSE LET t0 == Tz[x]
             odd == (t0 - FRAC) % 2 = 1
             m == IF odd THEN 2 * Mant[x] ELSE Mant[x]
             t == IF odd THEN t0 - 1 ELSE t0
             j == PREC + 1
             n == m * 4^j
             r == ISqrtRec[n, (3 * PREC + 3) \div 2, 0]
             M == 2 * r + (IF r * r = n THEN 0 ELSE 1)
         IN  RoundShift[M, j + 1 - FRAC - ((t - FRAC) \div 2)]

\* pow(x, y) for the two exponents ar1 uses: 2 and 0.5
Pow[x, y \in Int] == IF y = FromInt[2] THEN FMul[x, x] ELSE FSqrt[x]

\* ---------------------------------------------------------- libm models
\* exp, log and erf are evaluated as a math library does: argument
\* reduction and a series in a wider internal fixed-point format (LibBits
\* fraction bits), then one rounding to REAL.
LibBits == FRAC - 2
LibOne == 2^LibBits
\* ln 2 in the internal format
Ln2 == 11629080 \div 2^(24 - LibBits)

\* 1 + r/i * (1 + r/(i+1) * (... (1 + r/n))) in the internal format
ExpHorner[r, i, n \in Int] ==
    IF i > n THEN LibOne
    ELSE LibOne + (r * ExpHorner[r, i + 1, n]) \div (i * LibOne)

Exp[x \in Int] ==
    LET xg == x \div 2^(FRAC - LibBits)
        n == xg \div Ln2
        r == xg - n * Ln2
    IN  RoundShift[ExpHorner[r, 1, 9], LibBits - FRAC - n]

\* 1/(2i+1) + w * (1/(2i+3) + w * (...)) in the internal format
AtanhHorner[w, i, n \in Int] ==
    IF i > n THEN 0
    ELSE LibOne \div (2 * i + 1) + (w * AtanhHorner[w, i + 1, n]) \div LibOne

\* log(x) for x > 0: x = m * 2^e with m in [3/4, 3/2) and
\* log x = e ln2 + 2 atanh(z), z = (m-1)/(m+1).  z is kept to full relative
\* accuracy (units of 2^-sh), so that log is accurate near x = 1.
Log[x \in Int] ==
    LET L == Ilog2[x]
        m0 == IF L >= LibBits THEN x \div 2^(L - LibBits) ELSE x * 2^(LibBits - L)
        hi == 2 * m0 >= 3 * LibOne
        e == IF hi THEN L - FRAC + 1 ELSE L - FRAC
        den == IF hi THEN m0 + 2 * LibOne ELSE m0 + LibOne
        num == IF hi THEN m0 - 2 * LibOne ELSE m0 - LibOne
    IN  IF num = 0 THEN RoundShift[e * Ln2, LibBits - FRAC]
        ELSE LET sh == 29 - Ilog2[Abs(num)]
                 zs == (Abs(num) * 2^sh) \div den
                 zg == zs \div 2^(sh - LibBits)
                 w == (zg * zg) \div LibOne
                 a == (2 * zs * AtanhHorner[w, 0, 6]) \div LibOne
             IN  IF e = 0 THEN RoundShift[Sgn(num) * a, sh - FRAC]
                 ELSE RoundShift[e * Ln2 + Sgn(num) * (a \div 2^(sh - LibBits)),
                                 LibBits - FRAC]

\* erf at the knots k/16, k = 0..48, in units of 2^-14; erf is 1 beyond 3
ErfKnot ==
    << 0, 1154, 2299, 3426, 4527, 5595, 6621, 7601, 8528, 9399, 10211, 10962,
       11652, 12279, 12846, 13355, 13807, 14206, 14555, 14859, 15121, 15345,
       15535, 15695, 15829, 15940, 16031, 16105, 16166, 16214, 16253, 16283,
       16307, 16326, 16341, 16352, 16360, 16366, 16371, 16375, 16377, 16379,
       16381, 16382, 16382, 16383, 16383, 16383, 16384 >>

\* erf(x): odd, increasing, saturating at +-1; interpolated between the
\* knots in units of 2^-20 and rounded once
Erf[x \in Int] ==
    LET a == Abs(x)
        h == ONE \div 16
        k == a \div h
        f == a % h
        v == IF k >= 48 THEN 64 * 16384
             ELSE 64 * ErfKnot[k + 1] + (64 * (ErfKnot[k + 2] - ErfKnot[k + 1]) * f) \div h
    IN  Sgn(x) * RoundShift[v, 20 - FRAC]

\* sqrt((REAL)2)
Sqrt2 == FSqrt[FromInt[2]]

\* ------------------------------------------------------------ the program
\* param is the caller's parameter record; Z and P are the two output
\* containers; sigma_z .. zstep, normarg1, normarg2, ix, jx are ar1's
\* locals; pc is the position in ar1.
\*
\* The remaining variables observe the run.  wZ and wP are the elements
\* assigned so far in the current call, acc is the sequence of element
\* accesses of the last step, early records a read of an element the
\* current call had not assigned yet, calls counts the calls made and prev
\* holds the outputs of the previous call.
\*
\* mode, todo and wk serve the row-parallel schedule of the transition
\* loop (ParSpec): todo is the set of origin states no thread has taken
\* yet and wk the threads' private loop state.  mode says how the row
\* bodies are run: "seq" is ar1 as written; "atomic" runs whole row
\* bodies one at a time in any order; "shared" interleaves the statements
\* of row bodies that share normarg1 and normarg2, which ar1 declares once
\* outside the loop (line 60); "private" interleaves them with a copy of
\* normarg1 and normarg2 per thread.
VARIABLES param, Z, P, pc, ix, jx, sigma_z, mu_z, zmin, zmax, zstep,
          normarg1, normarg2, wZ, wP, acc, early, calls, prev,
          mode, todo, wk

vars == <<param, Z, P, pc, ix, jx, sigma_z, mu_z, zmin, zmax, zstep,
          normarg1, normarg2, wZ, wP, acc, early, calls, prev,
          mode, todo, wk>>

\* valid parameters: nz >= 3, sigma > 0, |rho| < 1, lambda > 0
NzSet == 3..MaxNz
MuSet == {0, ONE \div 4}
RhoSet == {0, (3 * ONE) \div 4, -(ONE \div 2)}
\* the last one makes zstep smaller than the spacing of REAL near Z
SigmaSet == {ONE, ONE \div 8, ONE \div 2^(PREC + 4)}
LambdaSet == {2 * ONE, 3 * ONE}
\* what the containers hold before the call: zeroed, or left-over values
JunkSet == {0, (3 * ONE) \div 4}
ParamSet == [nz : NzSet, mu : MuSet, rho : RhoSet, sigma : SigmaSet, lambda : LambdaSet]

\* the parameters of the row-parallel runs
ParParamSet ==
    [nz : 3..ParMaxNz, mu : {ONE \div 4}, rho : {-(ONE \div 2)},
     sigma : {ONE \div 8}, lambda : {3 * ONE}]
\* the runs that share normarg1 and normarg2 between threads are explored
\* on the smallest grid: three rows are enough for two row bodies to overlap
RaceParamSet == {q \in ParParamSet : q.nz = 3}
Threads == {"t1", "t2"}
Idle == [st |-> "idle", ix |-> 0, jx |-> 0, n1 |-> 0, n2 |-> 0]

\* element (i, j) of the nz x nz matrix P
Idx(i, j, n) == i + n * j
\* variant: every origin state uses the last element of P as its top bin
TopIdxShared(i, n) == n * n - 1
\* the top destination bin of origin state i
TopIdx(i, n) == i + n * (n - 1)

\* loop conditions (lines 57, 61, 65)
\* variant: the grid loop runs one iteration too many
GridCondOver(i, n) == i <= n
GridCond(i, n) == i < n
RowCond(i, n) == i < n
\* variant: the interior loop stops one destination early
InteriorCondShort(j, n) == j < n - 2
InteriorCond(j, n) == j < n - 1

\* c[i]; an index outside the container reads memory that is not the
\* container's (no step of ar1 does so: see C5)
Load(c, i) == IF i \in DOMAIN c THEN c[i] ELSE 0
\* c[i] = v; an index outside the container leaves the container as it is
Store(c, i, v) == IF i \in DOMAIN c THEN [c EXCEPT ![i] = v] ELSE c

\* an access of element i of container c made while processing origin
\* state row (-1: in the grid loop)
Rd(c, i, row) == [op |-> "r", c |-> c, i |-> i, row |-> row]
Wr(c, i, row) == [op |-> "w", c |-> c, i |-> i, row |-> row]
\* the elements of container c that the accesses s[1..k] write
WrittenBy(s, k, c) == {s[m].i : m \in {m \in 1..k : s[m].op = "w" /\ s[m].c = c}}
\* some access of s reads an element neither in wz/wp nor written earlier in s
ReadsUnassigned(s, wz, wp) ==
    \E k \in 1..Len(s) :
        /\ s[k].op = "r"
        /\ s[k].i \notin (IF s[k].c = "Z" THEN wz ELSE wp) \cup WrittenBy(s, k - 1, s[k].c)

\* the element accesses of lines 57, 62, 63-64, 66-67 and 68-69, in order
GridAcc(i) == <<Wr("Z", i, -1)>>
BottomArgAcc(i) == <<Rd("Z", i, i)>>
BottomPutAcc(i, n) == <<Wr("P", i, i), Rd("P", i, i), Wr("P", TopIdx(i, n), i)>>
InteriorArgsAcc(i, j) == <<Rd("Z", j, i), Rd("Z", i, i), Rd("Z", j, i), Rd("Z", i, i)>>
InteriorPutAcc(i, j, n) ==
    <<Wr("P", Idx(i, j, n), i), Rd("P", TopIdx(i, n), i), Rd("P", Idx(i, j, n), i),
      Wr("P", TopIdx(i, n), i)>>

\* the right-hand sides of ar1's assignments
SigmaZ(sigma, rho) == FDiv[sigma, Pow[FSub[ONE, Pow[rho, FromInt[2]]], HALF]]
MuZ(mu, rho) == FDiv[mu, FSub[ONE, rho]]
ZMin(muz, lambda, sigmaz) == FSub[muz, FMul[lambda, sigmaz]]
ZMax(muz, lambda, sigmaz) == FAdd[muz, FMul[lambda, sigmaz]]
ZStep(zmx, zmn, n) == FDiv[FSub[zmx, zmn], FromInt[n - 1]]
\* variant: the log-grid steps downwards from zmin
GridValueDown(zmn, zst, i) == Exp[FSub[zmn, FMul[zst, FromInt[i]]]]
GridValue(zmn, zst, i) == Exp[FAdd[zmn, FMul[zst, FromInt[i]]]]
\* variant: log(Zi) enters with weight 1 instead of rho
CentredNoRho(centre, mu, rho, Zi, sigma) ==
    FDiv[FSub[FSub[centre, mu], Log[Zi]], sigma]
\* (centre - mu - rho*log(Zi))/sigma
Centred(centre, mu, rho, Zi, sigma) ==
    FDiv[FSub[FSub[centre, mu], FMul[rho, Log[Zi]]], sigma]
\* 0.5*zstep/sigma
HalfStep(zst, sigma) == FDiv[FMul[HALF, zst], sigma]
BottomArg(zmn, mu, rho, Zi, sigma, zst) ==
    FAdd[Centred(zmn, mu, rho, Zi, sigma), HalfStep(zst, sigma)]
UpperArg(Zj, mu, rho, Zi, sigma, zst) ==
    FAdd[Centred(Log[Zj], mu, rho, Zi, sigma), HalfStep(zst, sigma)]
LowerArg(Zj, mu, rho, Zi, sigma, zst) ==
    FSub[Centred(Log[Zj], mu, rho, Zi, sigma), HalfStep(zst, sigma)]
BottomProb(n1) == FAdd[HALF, FMul[HALF, Erf[FDiv[n1, Sqrt2]]]]
InteriorProb(n1, n2) ==
    FSub[FMul[HALF, Erf[FDiv[n1, Sqrt2]]], FMul[HALF, Erf[FDiv[n2, Sqrt2]]]]
\* variant: the top bin starts from P[i,0] instead of 1 - P[i,0]
TopInitWrong(p0) == p0
TopInit(p0) == FSub[ONE, p0]
\* variant: the interior bins are not subtracted from the top bin
TopUpdateSkip(top, pj) == top
TopUpdate(top, pj) == FSub[top, pj]

\* variant: line 64 is left out, the top bin keeps what the container held
PutBottomNoInit(c, i, n, p0) == Store(c, i, p0)
\* lines 63-64 on container c for origin state i, p0 the value of line 63's
\* right-hand side
PutBottom(c, i, n, p0) ==
    LET c1 == Store(c, i, p0)
    IN  Store(c1, TopIdx(i, n), TopInit(Load(c1, i)))

\* lines 68-69 on container c for origin state i and destination j, pj the
\* value of line 68's right-hand side
PutInterior(c, i, j, n, pj) ==
    LET c1 == Store(c, Idx(i, j, n), pj)
    IN  Store(c1, TopIdx(i, n), TopUpdate(Load(c1, TopIdx(i, n)), Load(c1, Idx(i, j, n))))

Start(params, modes, junks) ==
    /\ param \in params
    /\ mode \in modes
    /\ \E junk \in junks :
          /\ Z = [i \in 0..(param.nz - 1) |-> junk]
          /\ P = [i \in 0..(param.nz * param.nz - 1) |-> junk]
    /\ pc = "entry"
    /\ ix = 0 /\ jx = 0
    /\ sigma_z = 0 /\ mu_z = 0 /\ zmin = 0 /\ zmax = 0 /\ zstep = 0
    /\ normarg1 = 0 /\ normarg2 = 0
    /\ wZ = {} /\ wP = {}
    /\ acc = <<>>
    /\ early = FALSE
    /\ calls = 1
    /\ prev = <<>>
    /\ todo = {}
    /\ wk = [t \in Threads |-> Idle]

Init == Start(ParamSet, {"seq"}, JunkSet)

\* lines 45-56: the locals, and the start of the grid loop; sz, mz, lo and
\* hi are the values of sigma_z, mu_z, zmin and zmax that the later
\* initialisers read
Entry ==
    /\ pc = "entry"
    /\ \E sz \in {SigmaZ(param.sigma, param.rho)}, mz \in {MuZ(param.mu, param.rho)} :
          \E lo \in {ZMin(mz, param.lambda, sz)}, hi \in {ZMax(mz, param.lambda, sz)} :
              /\ sigma_z' = sz /\ mu_z' = mz
              /\ zmin' = lo /\ zmax' = hi
              /\ zstep' = ZStep(hi, lo, param.nz)
    /\ ix' = 0
    /\ pc' = "grid"
    /\ acc' = <<>>
    /\ UNCHANGED <<param, Z, P, jx, normarg1, normarg2, wZ, wP, early, calls,
                   prev, mode, todo, wk>>

\* line 57, one iteration
GridStep ==
    /\ pc = "grid"
    /\ GridCond(ix, param.nz)
    /\ Z' = Store(Z, ix, GridValue(zmin, zstep, ix))
    /\ ix' = ix + 1
    /\ acc' = GridAcc(ix)
    /\ wZ' = wZ \cup WrittenBy(GridAcc(ix), 1, "Z")
    /\ UNCHANGED <<param, P, pc, jx, sigma_z, mu_z, zmin, zmax, zstep,
                   normarg1, normarg2, wP, early, calls, prev, mode, todo, wk>>

\* line 57 exit, line 61 start
GridExit ==
    /\ pc = "grid"
    /\ ~GridCond(ix, param.nz)
    /\ mode = "seq" \/ calls = 1
    /\ ix' = 0
    /\ pc' = "row"
    /\ acc' = <<>>
    /\ UNCHANGED <<param, Z, P, jx, sigma_z, mu_z, zmin, zmax, zstep,
                   normarg1, normarg2, wZ, wP, early, calls, prev, mode, todo, wk>>

\* line 62
BottomArgStep ==
    /\ pc = "row"
    /\ RowCond(ix, param.nz)
    /\ normarg1' = BottomArg(zmin, param.mu, param.rho, Load(Z, ix), param.sigma, zstep)
    /\ acc' = BottomArgAcc(ix)
    /\ early' = (early \/ ReadsUnassigned(BottomArgAcc(ix), wZ, wP))
    /\ pc' = "bottom"
    /\ UNCHANGED <<param, Z, P, ix, jx, sigma_z, mu_z, zmin, zmax, zstep,
                   normarg2, wZ, wP, calls, prev, mode, todo, wk>>

\* lines 63-64 and the start of the interior loop
BottomPut ==
    /\ pc = "bottom"
    /\ \E p0 \in {BottomProb(normarg1)} : P' = PutBottom(P, ix, param.nz, p0)
    /\ acc' = BottomPutAcc(ix, param.nz)
    /\ early' = (early \/ ReadsUnassigned(BottomPutAcc(ix, param.nz), wZ, wP))
    /\ wP' = wP \cup WrittenBy(BottomPutAcc(ix, param.nz), Len(BottomPutAcc(ix, param.nz)), "P")
    /\ jx' = 1
    /\ pc' = "interior"
    /\ UNCHANGED <<param, Z, ix, sigma_z, mu_z, zmin, zmax, zstep, normarg1,
                   normarg2, wZ, calls, prev, mode, todo, wk>>

\* lines 66-67
InteriorArgs ==
    /\ pc = "interior"
    /\ InteriorCond(jx, param.nz)
    /\ normarg1' = UpperArg(Load(Z, jx), param.mu, param.rho, Load(Z, ix), param.sigma, zstep)
    /\ normarg2' = LowerArg(Load(Z, jx), param.mu, param.rho, Load(Z, ix), param.sigma, zstep)
    /\ acc' = InteriorArgsAcc(ix, jx)
    /\ early' = (early \/ ReadsUnassigned(InteriorArgsAcc(ix, jx), wZ, wP))
    /\ pc' = "put"
    /\ UNCHANGED <<param, Z, P, ix, jx, sigma_z, mu_z, zmin, zmax, zstep,
                   wZ, wP, calls, prev, mode, todo, wk>>

\* lines 68-69 and ++jx
InteriorPut ==
    /\ pc = "put"
    /\ \E pj \in {InteriorProb(normarg1, normarg2)} :
          P' = PutInterior(P, ix, jx, param.nz, pj)
    /\ acc' = InteriorPutAcc(ix, jx, param.nz)
    /\ early' = (early \/ ReadsUnassigned(InteriorPutAcc(ix, jx, param.nz), wZ, wP))
    /\ wP' = wP \cup WrittenBy(InteriorPutAcc(ix, jx, param.nz), Len(InteriorPutAcc(ix, jx, param.nz)), "P")
    /\ jx' = jx + 1
    /\ pc' = "interior"
    /\ UNCHANGED <<param, Z, ix, sigma_z, mu_z, zmin, zmax, zstep, normarg1,
                   normarg2, wZ, calls, prev, mode, todo, wk>>

\* line 65 exit, ++ix of line 61
InteriorExit ==
    /\ pc = "interior"
    /\ ~InteriorCond(jx, param.nz)
    /\ ix' = ix + 1
    /\ pc' = "row"
    /\ acc' = <<>>
    /\ UNCHANGED <<param, Z, P, jx, sigma_z, mu_z, zmin, zmax, zstep,
                   normarg1, normarg2, wZ, wP, early, calls, prev, mode, todo, wk>>

\* line 61 exit, line 72: ar1 returns
Return ==
    /\ pc = "row"
    /\ ~RowCond(ix, param.nz)
    /\ pc' = "done"
    /\ acc' = <<>>
    /\ UNCHANGED <<param, Z, P, ix, jx, sigma_z, mu_z, zmin, zmax, zstep,
                   normarg1, normarg2, wZ, wP, early, calls, prev, mode, todo, wk>>

\* the caller calls ar1 again with the same parameters and the same
\* containers, which now hold the previous call's outputs
Recall ==
    /\ calls' = calls + 1
    /\ prev' = <<Z, P>>
    /\ pc' = "entry"
    /\ ix' = 0 /\ jx' = 0
    /\ sigma_z' = 0 /\ mu_z' = 0 /\ zmin' = 0 /\ zmax' = 0 /\ zstep' = 0
    /\ normarg1' = 0 /\ normarg2' = 0
    /\ wZ' = {} /\ wP' = {}
    /\ acc' = <<>>
    /\ early' = FALSE
    /\ UNCHANGED <<param, Z, P, mode, todo, wk>>

CallAgain ==
    /\ pc = "done"
    /\ mode = "seq"
    /\ calls < MaxCalls
    /\ Recall

Next ==
    \/ Entry
    \/ GridStep
    \/ GridExit
    \/ BottomArgStep
    \/ BottomPut
    \/ InteriorArgs
    \/ InteriorPut
    \/ InteriorExit
    \/ Return
    \/ CallAgain

Spec == Init /\ [][Next]_vars

\* ar1 is sequential code without blocking: a step that can be taken is taken
FairSpec == Spec /\ WF_vars(Next)

\* ------------------------------------------- the row-parallel schedule
\* The run that C9 is about: after a sequential call, whose outputs prev
\* keeps, the transition loop of a second call is run by the threads, each
\* taking origin states from todo in any order.
ParInit ==
    \/ Start(ParParamSet, {"atomic", "private"}, {(3 * ONE) \div 4})
    \/ Start(RaceParamSet, {"shared"}, {(3 * ONE) \div 4})

CallParallel ==
    /\ pc = "done"
    /\ mode # "seq"
    /\ calls = 1
    /\ Recall

\* the grid is populated: the threads start on the rows
Fork ==
    /\ pc = "grid"
    /\ ~GridCond(ix, param.nz)
    /\ mode # "seq" /\ calls > 1
    /\ pc' = "par"
    /\ todo' = 0..(param.nz - 1)
    /\ acc' = <<>>
    /\ UNCHANGED <<param, Z, P, ix, jx, sigma_z, mu_z, zmin, zmax, zstep,
                   normarg1, normarg2, wZ, wP, early, calls, prev, mode, wk>>

\* thread t's normarg1 and normarg2
N1(t) == IF mode = "private" THEN wk[t].n1 ELSE normarg1
N2(t) == IF mode = "private" THEN wk[t].n2 ELSE normarg2

\* thread t takes origin state i (line 61 for that i)
Take(t) ==
    /\ pc = "par"
    /\ wk[t].st = "idle"
    /\ mode = "atomic" => \A u \in Threads : wk[u].st = "idle"
    /\ \E i \in todo :
          /\ todo' = todo \ {i}
          /\ wk' = [wk EXCEPT ![t] = [@ EXCEPT !.st = "row", !.ix = i]]
    /\ acc' = <<>>
    /\ UNCHANGED <<param, Z, P, pc, ix, jx, sigma_z, mu_z, zmin, zmax, zstep,
                   normarg1, normarg2, wZ, wP, early, calls, prev, mode>>

\* line 62 by thread t
ParBottomArg(t) ==
    /\ pc = "par"
    /\ wk[t].st = "row"
    /\ LET v == BottomArg(zmin, param.mu, param.rho, Load(Z, wk[t].ix), param.sigma, zstep)
       IN  IF mode = "private"
           THEN /\ wk' = [wk EXCEPT ![t] = [@ EXCEPT !.st = "bottom", !.n1 = v]]
                /\ UNCHANGED normarg1
           ELSE /\ wk' = [wk EXCEPT ![t] = [@ EXCEPT !.st = "bottom"]]
                /\ normarg1' = v
    /\ acc' = BottomArgAcc(wk[t].ix)
    /\ early' = (early \/ ReadsUnassigned(BottomArgAcc(wk[t].ix), wZ, wP))
    /\ UNCHANGED <<param, Z, P, pc, ix, jx, sigma_z, mu_z, zmin, zmax, zstep,
                   normarg2, wZ, wP, calls, prev, mode, todo>>

\* lines 63-64 by thread t
ParBottomPut(t) ==
    /\ pc = "par"
    /\ wk[t].st = "bottom"
    /\ \E p0 \in {BottomProb(N1(t))} : P' = PutBottom(P, wk[t].ix, param.nz, p0)
    /\ acc' = BottomPutAcc(wk[t].ix, param.nz)
    /\ early' = (early \/ ReadsUnassigned(BottomPutAcc(wk[t].ix, param.nz), wZ, wP))
    /\ wP' = wP \cup WrittenBy(BottomPutAcc(wk[t].ix, param.nz), Len(BottomPutAcc(wk[t].ix, param.nz)), "P")
    /\ wk' = [wk EXCEPT ![t] = [@ EXCEPT !.st = "interior", !.jx = 1]]
    /\ UNCHANGED <<param, Z, pc, ix, jx, sigma_z, mu_z, zmin, zmax, zstep,
                   normarg1, normarg2, wZ, calls, prev, mode, todo>>

\* lines 66-67 by thread t
ParInteriorArgs(t) ==
    /\ pc = "par"
    /\ wk[t].st = "interior"
    /\ InteriorCond(wk[t].jx, param.nz)
    /\ LET Zj == Load(Z, wk[t].jx)
           Zi == Load(Z, wk[t].ix)
           v1 == UpperArg(Zj, param.mu, param.rho, Zi, param.sigma, zstep)
           v2 == LowerArg(Zj, param.mu, param.rho, Zi, param.sigma, zstep)
       IN  IF mode = "private"
           THEN /\ wk' = [wk EXCEPT ![t] = [@ EXCEPT !.st = "put", !.n1 = v1, !.n2 = v2]]
                /\ UNCHANGED <<normarg1, normarg2>>
           ELSE /\ wk' = [wk EXCEPT ![t] = [@ EXCEPT !.st = "put"]]
                /\ normarg1' = v1
                /\ normarg2' = v2
    /\ acc' = InteriorArgsAcc(wk[t].ix, wk[t].jx)
    /\ early' = (early \/ ReadsUnassigned(InteriorArgsAcc(wk[t].ix, wk[t].jx), wZ, wP))
    /\ UNCHANGED <<param, Z, P, pc, ix, jx, sigma_z, mu_z, zmin, zmax, zstep,
                   wZ, wP, calls, prev, mode, todo>>

\* lines 68-69 and ++jx by thread t
ParInteriorPut(t) ==
    /\ pc = "par"
    /\ wk[t].st = "put"
    /\ \E pj \in {InteriorProb(N1(t), N2(t))} :
          P' = PutInterior(P, wk[t].ix, wk[t].jx, param.nz, pj)
    /\ acc' = InteriorPutAcc(wk[t].ix, wk[t].jx, param.nz)
    /\ early' = (early \/ ReadsUnassigned(InteriorPutAcc(wk[t].ix, wk[t].jx, param.nz), wZ, wP))
    /\ wP' = wP \cup WrittenBy(InteriorPutAcc(wk[t].ix, wk[t].jx, param.nz), Len(InteriorPutAcc(wk[t].ix, wk[t].jx, param.nz)), "P")
    /\ wk' = [wk EXCEPT ![t] = [@ EXCEPT !.st = "interior", !.jx = @ + 1]]
    /\ UNCHANGED <<param, Z, pc, ix, jx, sigma_z, mu_z, zmin, zmax, zstep,
                   normarg1, normarg2, wZ, calls, prev, mode, todo>>

\* line 65 exit by thread t: the row is finished
ParRowExit(t) ==
    /\ pc = "par"
    /\ wk[t].st = "interior"
    /\ ~InteriorCond(wk[t].jx, param.nz)
    /\ wk' = [wk EXCEPT ![t] = Idle]
    /\ acc' = <<>>
    /\ UNCHANGED <<param, Z, P, pc, ix, jx, sigma_z, mu_z, zmin, zmax, zstep,
                   normarg1, normarg2, wZ, wP, early, calls, prev, mode, todo>>

\* every row is finished
Join ==
    /\ pc = "par"
    /\ todo = {}
    /\ \A t \in Threads : wk[t].st = "idle"
    /\ pc' = "done"
    /\ acc' = <<>>
    /\ UNCHANGED <<param, Z, P, ix, jx, sigma_z, mu_z, zmin, zmax, zstep,
                   normarg1, normarg2, wZ, wP, early, calls, prev, mode, todo, wk>>

ParNext ==
    \/ Entry
    \/ GridStep
    \/ GridExit
    \/ BottomArgStep
    \/ BottomPut
    \/ InteriorArgs
    \/ InteriorPut
    \/ InteriorExit
    \/ Return
    \/ CallParallel
    \/ Fork
    \/ \E t \in Threads : Take(t)
    \/ \E t \in Threads : ParBottomArg(t)
    \/ \E t \in Threads : ParBottomPut(t)
    \/ \E t \in Threads : ParInteriorArgs(t)
    \/ \E t \in Threads : ParInteriorPut(t)
    \/ \E t \in Threads : ParRowExit(t)
    \/ Join

ParSpec == ParInit /\ [][ParNext]_vars

\* ------------------------------------------------------------- the claims
Done == pc = "done"
Rows == 0..(param.nz - 1)
\* the spacing of REAL just above 1
UlpOne == 2^(FRAC - PREC + 1)
\* the spacing of REAL at magnitude v
Ulp(v) == IF Abs(v) < 2^PREC THEN 1 ELSE 2^(Ilog2[Abs(v)] + 1 - PREC)

RECURSIVE RowSum(_, _, _, _)
\* the exact sum of c[i + n*k], k = 0..j
RowSum(c, i, j, n) == IF j < 0 THEN 0 ELSE c[Idx(i, j, n)] + RowSum(c, i, j - 1, n)

RECURSIVE Reduce(_, _, _, _)
\* the sum of c[i + n*k], k = 0..j, as a reduction in REAL arithmetic
Reduce(c, i, j, n) ==
    IF j = 0 THEN c[Idx(i, 0, n)] ELSE FAdd[Reduce(c, i, j - 1, n), c[Idx(i, j, n)]]

C2_EntriesAreProbabilities ==
    Done => \A k \in DOMAIN P : 0 <= P[k] /\ P[k] <= ONE

Resolved == zstep >= 8 * Ulp(Max(ONE, Max(Abs(zmin), Abs(zmax))))

C4_TerminatesAndAssignsAll ==
    (pc = "entry") ~> (Done /\ wZ = DOMAIN Z /\ wP = DOMAIN P)

\* a first call that has returned with both containers fully assigned
C4_Witness == Done /\ calls = 1 /\ wZ = DOMAIN Z /\ wP = DOMAIN P

\* every access of s is to an element of its container
InBounds(s, dz, dp) ==
    \A k \in 1..Len(s) : s[k].i \in (IF s[k].c = "Z" THEN dz ELSE dp)

\* C5: no step of ar1 changes the parameter record or the size of a
\* container, and every element it reads or writes lies in 0..nz-1 for Z
\* and in 0..nz*nz-1 for P.
C5_Frame ==
    [][/\ param' = param
       /\ DOMAIN Z' = DOMAIN Z /\ DOMAIN P' = DOMAIN P
       /\ DOMAIN Z = 0..(param.nz - 1) /\ DOMAIN P = 0..(param.nz * param.nz - 1)
       /\ InBounds(acc', DOMAIN Z, DOMAIN P)]_vars

\* a step that wrote the last element of P
C5_Witness ==
    \E k \in 1..Len(acc) :
        acc[k] = Wr("P", param.nz * param.nz - 1, param.nz - 1)

\* C6: with mu = 0, when ar1 has returned, log(Z[i]) = -log(Z[nz-1-i]) and
\* P[i + nz*j] = P[(nz-1-i) + nz*(nz-1-j)] for all i, j.
C6_Symmetric ==
    Done /\ param.mu = 0 =>
        /\ \A i \in Rows : Log[Z[i]] = -Log[Z[param.nz - 1 - i]]
        /\ \A i, j \in Rows :
              P[Idx(i, j, param.nz)] = P[Idx(param.nz - 1 - i, param.nz - 1 - j, param.nz)]

ReductionTop(c, i, j, n) == FSub[ONE, Reduce(c, i, j, n)]

\* the rows whose destinations 0..j have been processed, with that j
Processed ==
    {<<i, param.nz - 2>> : i \in {i \in Rows : pc \in {"row", "bottom", "done"} /\ i < ix}}
        \cup (IF pc \in {"interior", "put"} THEN {<<ix, jx - 1>>} ELSE {})

\* C8 as claimed: once the interior loop has processed destinations 1..j of
\* row i, P[i + nz*(nz-1)] equals 1 - sum(P[i, 0..j]) as the reduction
\* formulation computes it.
C8_TopEqualsReduction ==
    mode = "seq" =>
        \A r \in Processed :
            P[TopIdx(r[1], param.nz)] = ReductionTop(P, r[1], r[2], param.nz)

\* C8 as amended: the two agree up to rounding, within nz units in the last
\* place of 1, and the running value is exactly 1 - P[i,0] before the
\* first interior destination.
C8_TopNearReduction ==
    mode = "seq" =>
        \A r \in Processed :
            /\ Abs(P[TopIdx(r[1], param.nz)] - ReductionTop(P, r[1], r[2], param.nz))
                   <= param.nz * UlpOne
            /\ r[2] = 0 => P[TopIdx(r[1], param.nz)] = ReductionTop(P, r[1], 0, param.nz)

\* a finished row with positive interior entries
C8_Witness ==
    /\ pc = "row" /\ ix > 0
    /\ \A j \in 1..(param.nz - 2) : P[Idx(ix - 1, j, param.nz)] > 0

\* every P access of the last step is to an element of the row being
\* processed, and Z is only read in the transition loop
OwnRowOnly ==
    \A k \in 1..Len(acc) :
        /\ acc[k].c = "P" => acc[k].i % param.nz = acc[k].row
        /\ acc[k].c = "Z" /\ acc[k].row >= 0 => acc[k].op = "r"

ParDone == Done /\ calls = 2 /\ mode # "seq"

\* C9 as claimed: a row body touches only the P elements of its own row and
\* only reads Z, and the row bodies run in any order or interleaving leave
\* the P of the sequential loop.
C9_AnyInterleaving ==
    /\ OwnRowOnly
    /\ ParDone => <<Z, P>> = prev

\* C9 as amended: the same, for row bodies run one at a time in any order
\* and for interleaved row bodies that each have their own normarg1 and
\* normarg2.
C9_RowsIndependent ==
    /\ OwnRowOnly
    /\ ParDone /\ mode \in {"atomic", "private"} => <<Z, P>> = prev

\* two row bodies overlap: both threads hold arguments not yet used
C9_Witness ==
    /\ mode = "private"
    /\ \A t \in Threads : wk[t].st = "put"

\* C10: no step reads an element of Z or P that the current call has not
\* assigned, and a second call with the same parameters leaves Z and P as
\* the first call left them.
C10_FunctionOfParameters ==
    /\ ~early
    /\ Done /\ calls > 1 => <<Z, P>> = prev

\* a second call that has returned
C10_Witness == Done /\ calls = 2 /\ <<Z, P>> = prev /\ \E k \in DOMAIN P : P[k] # 0

====
